---- MODULE Spec2Model ----
(***************************************************************************)
(* Crosswords analytics API: the statistics service and its router.        *)
(*                                                                         *)
(* The store (tables grids and submission) is the state; the handlers of   *)
(* src/app/routers/statistics.py, each with the service function it calls  *)
(* in src/app/services/statistics_service.py, are the actions.  A handler  *)
(* leaves its HTTP response in resp.                                       *)
(*                                                                         *)
(* Numbers.  final_score is a Float column; the model draws integer        *)
(* scores and keeps every derived real number exact, as a fraction         *)
(* [n |-> numerator, d |-> denominator] (d > 0).  Floating-point rounding  *)
(* is not modelled.  Timestamps are whole hours since a Monday 00:00.      *)
(***************************************************************************)
EXTENDS Integers, Sequences, FiniteSets, TLC

VARIABLES grids, subs, resp

vars == <<grids, subs, resp>>

\* ---------------------------------------------------------------- bounds
MaxGrid == 2
MaxSubs == 3
BulkSize == 1001

\* ------------------------------------------------------ program constants
LimitCap == 1000
DefaultBins == 20
HoursPerDay == 24
DaysPerWeek == 7
TopHours == 3

\* ---------------------------------------------------------- input domains
GridIds == 1..MaxGrid
\* A grid identifier that no store of the model holds.
NoGrid == MaxGrid + 1
ProbeIds == 1..NoGrid
SubIds == 1..MaxSubs
\* Rows written by the test-data generator get the identifiers after SubIds.
BulkIds == (MaxSubs + 1)..(MaxSubs + MaxGrid * BulkSize)
Limits == {0, 2, LimitCap, LimitCap + 1}

\* ------------------------------------------------------------- arithmetic
Min2(a, b) == IF a <= b THEN a ELSE b

RECURSIVE SumOver(_, _)
\* Sum of f[x] for x in the finite set S.
SumOver(S, f) ==
  IF S = {} THEN 0
  ELSE LET x == CHOOSE y \in S : TRUE IN f[x] + SumOver(S \ {x}, f)

\* ------------------------------------------------------------ the store
\* models.py: Grid (id, published_at) and Submission.
GridRow(g, pub) == [id |-> g, published |-> pub]

\* Mutant: the grid check is skipped.
GridExistsAlways(g) == TRUE

\* db.query(Grid).filter(Grid.id == grid_id).first() is not None.
GridExists(g) == \E r \in grids : r.id = g

SubRow(g, sc, tm, wf, tw, jk, at) ==
  [grid_id |-> g, final_score |-> sc, completion_time_seconds |-> tm,
   words_found |-> wf, total_words |-> tw, joker_used |-> jk,
   submitted_at |-> at]

\* The identifiers of the submissions of grid g (filter grid_id == g).
SubsOfGrid(g) == {i \in DOMAIN subs : subs[i].grid_id = g}

\* Insertion gives a new row the least free identifier of SubIds.
FreshId == CHOOSE i \in SubIds \ DOMAIN subs :
             \A j \in SubIds \ DOMAIN subs : i <= j

\* A submission is written by gameplay, outside this service; the store is
\* capped at `cap` such rows.
InsertSubmission(D, cap) ==
  /\ Cardinality(DOMAIN subs) < cap
  /\ \E r \in D :
       /\ GridExists(r.grid_id)
       /\ subs' = (FreshId :> r) @@ subs
  /\ UNCHANGED <<grids, resp>>

\* generate_test_data.py: row k (1..n) written for grid g.  The generator
\* draws its values at random; the model writes pairwise distinct scores,
\* rising or falling with k.
GeneratedRow(g, k, n, rising) ==
  SubRow(g, 100 + (IF rising THEN k ELSE n + 1 - k), 30 + (k % 7),
         k % 3, 2, k % 4 = 0, k % HoursPerDay)

GeneratedId(g, k) == MaxSubs + (g - 1) * BulkSize + k

\* generate_test_data.py main(): for every grid, delete its submissions and
\* insert num_submissions generated ones.  The model runs the generator on
\* a store that holds no submission yet.
GenerateTestData ==
  /\ grids # {}
  /\ DOMAIN subs = {}
  /\ \E rising \in BOOLEAN :
       subs' = [i \in {GeneratedId(r.id, k) : r \in grids, k \in 1..BulkSize} |->
                  LET g == ((i - MaxSubs - 1) \div BulkSize) + 1
                      k == i - MaxSubs - (g - 1) * BulkSize
                  IN GeneratedRow(g, k, BulkSize, rising)]
  /\ UNCHANGED <<grids, resp>>

\* ------------------------------------------------------ ORDER BY ... LIMIT
\* ORDER BY final_score DESC, completion_time_seconds ASC leaves the order
\* of rows equal on both keys to the database.  A tie-break tb is an order
\* on the fetched rows of SubIds that the database may follow; every tb is
\* possible.  Generated rows have pairwise distinct scores and need none.
ScoreTop == 100 + BulkSize + 1
TimeSpan == 100
IdSpan == MaxSubs + MaxGrid * BulkSize + 2

TieBreaks(R) == Permutations(R \cap SubIds)

TieRank(tb, i) == IF i \in DOMAIN tb THEN tb[i] ELSE i

TieId(tb, r) == IF r \in DOMAIN tb THEN CHOOSE i \in DOMAIN tb : tb[i] = r
                ELSE r

\* Mutant: the second key descending (slower first).
SortKeyTimeDesc(i, tb) ==
  ((ScoreTop - subs[i].final_score) * TimeSpan
     + (TimeSpan - 1 - subs[i].completion_time_seconds)) * IdSpan
  + TieRank(tb, i)

\* The rows in the order of this integer are in the order
\* (final_score DESC, completion_time_seconds ASC, tie-break ASC).
SortKey(i, tb) ==
  ((ScoreTop - subs[i].final_score) * TimeSpan
     + subs[i].completion_time_seconds) * IdSpan + TieRank(tb, i)

RECURSIVE SortKeys(_, _, _)
\* The integers of K, all in lo..hi, in ascending order.
SortKeys(K, lo, hi) ==
  IF K = {} THEN <<>>
  ELSE IF Cardinality(K) = 1 THEN <<CHOOSE k \in K : TRUE>>
  ELSE LET mid == (lo + hi) \div 2
       IN SortKeys(K \cap (lo..mid), lo, mid)
            \o SortKeys(K \cap ((mid + 1)..hi), mid + 1, hi)

\* The identifiers of R in ORDER BY order under tie-break tb.
OrderBy(R, tb) ==
  LET sk == SortKeys({SortKey(i, tb) : i \in R}, 0,
                     (ScoreTop + 1) * TimeSpan * IdSpan)
  IN [j \in 1..Len(sk) |-> TieId(tb, sk[j] % IdSpan)]

\* LIMIT n: the first n rows (all of them when there are fewer).
SqlLimit(s, n) == SubSeq(s, 1, Min2(n, Len(s)))

\* ------------------------------------------------------------ leaderboard
\* One leaderboard entry; pseudo is the user's handle (one user per row).
LeaderboardEntry(i, rank) ==
  [rank |-> rank, pseudo |-> i,
   finalScore |-> subs[i].final_score,
   completionTime |-> subs[i].completion_time_seconds,
   wordsFound |-> subs[i].words_found,
   totalWords |-> subs[i].total_words,
   isCompleted |-> (subs[i].words_found = subs[i].total_words),
   jokerUsed |-> subs[i].joker_used,
   submittedAt |-> subs[i].submitted_at]

\* Mutant: competition ranking, rows equal on both keys share a rank.
get_leaderboardSharedRank(g, limit, tb) ==
  LET df == SqlLimit(OrderBy(SubsOfGrid(g), tb), limit)
  IN [r \in 1..Len(df) |->
        LeaderboardEntry(df[r],
          1 + Cardinality({q \in 1..Len(df) :
                SortKey(df[q], <<>>) \div IdSpan
                  < SortKey(df[r], <<>>) \div IdSpan}))]

\* get_leaderboard after the grid check: query, rank column, formatting.
get_leaderboard(g, limit, tb) ==
  LET df == SqlLimit(OrderBy(SubsOfGrid(g), tb), limit)
  IN [r \in 1..Len(df) |-> LeaderboardEntry(df[r], r)]

\* Mutant: the limit is passed on as requested.
ClampLimitNone(limit) == limit

\* The router clamps the requested limit.
ClampLimit(limit) == IF limit > LimitCap THEN LimitCap ELSE limit

NotFound(op, g) == [op |-> op, grid |-> g, status |-> 404]

\* GET /grid/{grid_id}/leaderboard
get_grid_leaderboard(g, limit) ==
  /\ IF ~GridExists(g)
       THEN resp' = NotFound("leaderboard", g) @@ [limit |-> limit]
       ELSE \E tb \in TieBreaks(SubsOfGrid(g)) :
              resp' = [op |-> "leaderboard", grid |-> g, limit |-> limit,
                       status |-> 200,
                       body |-> get_leaderboard(g, ClampLimit(limit), tb)]
  /\ UNCHANGED <<grids, subs>>

\* ---------------------------------------------------------- shared numerics
\* round(x, k) of x = num / den >= 0, in units of 10^-k when num carries the
\* factor 10^k: to the nearest unit, a tie to the even one (a tie of the
\* exact value; the binary error of a float at a tie is not modelled).
RoundHalfEven(num, den) ==
  LET q == num \div den
      r == num % den
  IN IF 2 * r < den THEN q
     ELSE IF 2 * r > den THEN q + 1
     ELSE IF q % 2 = 0 THEN q ELSE q + 1

\* A number with one decimal, and with two.
Tenths(n) == [n |-> n, d |-> 10]
Hundredths(n) == [n |-> n, d |-> 100]

\* The values f[i], i in R, in ascending order (with repetitions).
SortedValues(R, f) ==
  LET sk == SortKeys({f[i] * IdSpan + i : i \in R}, 0,
                     (ScoreTop + TimeSpan) * IdSpan)
  IN [j \in 1..Len(sk) |-> sk[j] \div IdSpan]

\* int(Series.median()) of a non-empty column of integers >= 0.
MedianInt(R, f) ==
  LET s == SortedValues(R, f)
      n == Len(s)
  IN IF n % 2 = 1 THEN s[(n + 1) \div 2]
     ELSE (s[n \div 2] + s[n \div 2 + 1]) \div 2

\* -------------------------------------------------------- grid statistics
\* An exact real number n / d, d > 0 (not reduced).
Frac(n, d) == [n |-> n, d |-> d]

\* Mutant: the interpolation weight taken from the wrong neighbour.
QuantileReversed(s, p) ==
  LET pos == p * (Len(s) - 1)
      lo == pos \div 100
      rem == pos % 100
  IN IF rem = 0 THEN Frac(s[lo + 1] * 100, 100)
     ELSE Frac(s[lo + 1] * 100 + (s[lo + 2] - s[lo + 1]) * (100 - rem), 100)

\* Series.quantile(p / 100) of the ascending non-empty sequence s, by linear
\* interpolation between the neighbours of index (p / 100) * (n - 1).
Quantile(s, p) ==
  LET pos == p * (Len(s) - 1)
      lo == pos \div 100
      rem == pos % 100
  IN IF rem = 0 THEN Frac(s[lo + 1] * 100, 100)
     ELSE Frac(s[lo + 1] * 100 + (s[lo + 2] - s[lo + 1]) * rem, 100)

\* Series.median() of the ascending non-empty sequence s: the middle value,
\* or the mean of the two middle values.
Median(s) ==
  LET n == Len(s)
  IN IF n % 2 = 1 THEN Frac(s[(n + 1) \div 2], 1)
     ELSE Frac(s[n \div 2] + s[n \div 2 + 1], 2)

\* int(x) of x >= 0: truncation.
IntOf(x) == x.n \div x.d

\* Series.mean() of the column f over the non-empty set of rows R.
Mean(R, f) == Frac(SumOver(R, f), Cardinality(R))

\* The square of Series.std() (sample, divisor n - 1); std is NaN for fewer
\* than two rows and is then reported as 0.
StdSquared(R, f) ==
  LET n == Cardinality(R)
      s1 == SumOver(R, f)
      s2 == SumOver(R, [i \in R |-> f[i] * f[i]])
  IN IF n < 2 THEN Frac(0, 1) ELSE Frac(n * s2 - s1 * s1, n * (n - 1))

\* An optional value is <<>> (None) or <<value>>.
\* Joker usage of the rows R: with_joker = df[df["joker_used"]] and
\* without_joker = df[df["joker_used"]].
JokerUsage(R) ==
  LET score == [i \in R |-> subs[i].final_score]
      with_joker == {i \in R : subs[i].joker_used}
      without_joker == {i \in R : subs[i].joker_used}
      avg_with_joker ==
        IF Cardinality(with_joker) > 0
          THEN <<Mean(with_joker, [i \in with_joker |-> score[i]])>> ELSE <<>>
      avg_without_joker ==
        IF Cardinality(without_joker) > 0
          THEN <<Mean(without_joker, [i \in without_joker |-> score[i]])>>
          ELSE <<>>
  IN [totalUsed |-> Cardinality({i \in R : subs[i].joker_used}),
      usageRate |-> Frac(Cardinality({i \in R : subs[i].joker_used}) * 100,
                         Cardinality(R)),
      averageScoreWithJoker |-> avg_with_joker,
      averageScoreWithoutJoker |-> avg_without_joker]

\* (words_found / total_words) * 100 == 100 in floating point: a division
\* by zero gives NaN or inf, never 100.
CompletionIs100(i) ==
  subs[i].total_words # 0 /\ subs[i].words_found = subs[i].total_words

\* calculate_grid_stats for a grid that exists and has submissions; `first`
\* is the frame's first row (the query has no ORDER BY).
calculate_grid_stats(g, first) ==
  LET R == SubsOfGrid(g)
      n == Cardinality(R)
      score == [i \in R |-> subs[i].final_score]
      time == [i \in R |-> subs[i].completion_time_seconds]
      words == [i \in R |-> subs[i].words_found]
      ss == SortedValues(R, score)
      ts == SortedValues(R, time)
      ws == SortedValues(R, words)
  IN [gridId |-> g,
      totalPlayers |-> n,
      totalSubmissions |-> n,
      completionRate |->
        Hundredths(RoundHalfEven(
          Cardinality({i \in R : CompletionIs100(i)}) * 100 * 100, n)),
      scores |->
        [min |-> ss[1], max |-> ss[n], mean |-> Mean(R, score),
         median |-> Median(ss), stdSquared |-> StdSquared(R, score),
         percentiles |->
           [p1 |-> Quantile(ss, 1), p5 |-> Quantile(ss, 5),
            p10 |-> Quantile(ss, 10), p25 |-> Quantile(ss, 25),
            p50 |-> Quantile(ss, 50), p75 |-> Quantile(ss, 75),
            p90 |-> Quantile(ss, 90), p95 |-> Quantile(ss, 95),
            p99 |-> Quantile(ss, 99)]],
      timing |->
        [min |-> ts[1], max |-> ts[n], mean |-> Mean(R, time),
         median |-> Median(ts),
         percentiles |->
           [p25 |-> IntOf(Quantile(ts, 25)), p50 |-> IntOf(Quantile(ts, 50)),
            p75 |-> IntOf(Quantile(ts, 75))]],
      jokerUsage |-> JokerUsage(R),
      wordsStats |->
        [averageFound |-> Mean(R, words),
         medianFound |-> Median(ws),
         totalWords |-> subs[first].total_words,
         distribution |->
           [v \in {words[i] : i \in R} |->
              Cardinality({i \in R : words[i] = v})]]]

\* The report of a grid without submissions.
EmptyGridReport(g) ==
  [gridId |-> g, totalPlayers |-> 0, totalSubmissions |-> 0,
   message |-> "No submissions yet for this grid"]

\* GET /grid/{grid_id}
get_grid_statistics(g) ==
  /\ IF ~GridExists(g)
       THEN resp' = NotFound("grid_stats", g)
       ELSE IF SubsOfGrid(g) = {}
         THEN resp' = [op |-> "grid_stats", grid |-> g, status |-> 200,
                       body |-> EmptyGridReport(g)]
         ELSE \E first \in SubsOfGrid(g) :
                resp' = [op |-> "grid_stats", grid |-> g, status |-> 200,
                         body |-> calculate_grid_stats(g, first)]
  /\ UNCHANGED <<grids, subs>>

\* ----------------------------------------------------------- distributions
\* np.histogram(values, bins=num_bins) on the column f of the non-empty set
\* of rows R.  The range is [min, max], widened to [min - 0.5, max + 0.5]
\* when min = max.  Edges are kept exact, in units of 1 / (2 * num_bins).
HistFirst2(s) == IF s[1] = s[Len(s)] THEN 2 * s[1] - 1 ELSE 2 * s[1]

HistLast2(s) == IF s[1] = s[Len(s)] THEN 2 * s[Len(s)] + 1 ELSE 2 * s[Len(s)]

\* Mutant: edges spaced by (last - first) / (num_bins + 1).
bin_edgesShort(s, num_bins, k) ==
  Frac(HistFirst2(s) * (num_bins + 1 - k) + HistLast2(s) * k,
       2 * (num_bins + 1))

\* np.linspace(first, last, num_bins + 1)[k], k in 0..num_bins.
bin_edges(s, num_bins, k) ==
  Frac(HistFirst2(s) * (num_bins - k) + HistLast2(s) * k, 2 * num_bins)

\* Mutant: the last edge is not moved into the last bin.
BinIndexOpenEnd(s, num_bins, v) ==
  ((2 * v - HistFirst2(s)) * num_bins) \div (HistLast2(s) - HistFirst2(s))

\* The bin (0-based) that counts the value v: equal-width index, the last
\* edge belonging to the last bin.
BinIndex(s, num_bins, v) ==
  LET idx == ((2 * v - HistFirst2(s)) * num_bins)
               \div (HistLast2(s) - HistFirst2(s))
  IN IF idx = num_bins THEN num_bins - 1 ELSE idx

\* counts[k], k in 0..num_bins - 1.
HistCount(R, f, s, num_bins, k) ==
  Cardinality({i \in R : BinIndex(s, num_bins, f[i]) = k})

\* Mutant: statistics of zeros for an empty column.
EmptyDistributionZeros ==
  [bins |-> <<>>, counts |-> <<>>, min |-> 0, max |-> 0, mean |-> Frac(0, 1)]

\* The report without submissions.
EmptyDistribution == [bins |-> <<>>, counts |-> <<>>]

\* get_score_distribution for a grid that exists and has submissions.
score_distribution(g, num_bins) ==
  LET R == SubsOfGrid(g)
      f == [i \in R |-> subs[i].final_score]
      s == SortedValues(R, f)
  IN [bins |-> [k \in 1..num_bins |->
                  [start |-> bin_edges(s, num_bins, k - 1),
                   end |-> bin_edges(s, num_bins, k),
                   count |-> HistCount(R, f, s, num_bins, k - 1)]],
      min |-> s[1], max |-> s[Len(s)], mean |-> Mean(R, f)]

\* get_completion_time_distribution for a grid that exists and has
\* submissions: the edges are reported as int(edge).
completion_time_distribution(g, num_bins) ==
  LET R == SubsOfGrid(g)
      f == [i \in R |-> subs[i].completion_time_seconds]
      s == SortedValues(R, f)
  IN [bins |-> [k \in 1..num_bins |->
                  [start |-> IntOf(bin_edges(s, num_bins, k - 1)),
                   end |-> IntOf(bin_edges(s, num_bins, k)),
                   count |-> HistCount(R, f, s, num_bins, k - 1)]],
      min |-> s[1], max |-> s[Len(s)], mean |-> Mean(R, f),
      median |-> Median(s)]

\* final_score is a double precision column: NOT NULL still admits NaN.  The
\* model writes NaN as the value ScoreTop, above every score it draws (as
\* PostgreSQL orders it).  Only SpecNonFinite draws such a row.
NonFinite == ScoreTop

\* np.histogram raises ValueError ("autodetected range of [nan, nan] is not
\* finite") when the minimum or the maximum of the column is not finite.
histogram_raises(R) == \E i \in R : subs[i].final_score = NonFinite

\* The router's except clauses: ValueError -> 404, any other -> 500.
HTTPException(op, g, exc) ==
  [op |-> op, grid |-> g,
   status |-> IF exc = "ValueError" THEN 404 ELSE 500]

\* GET /grid/{grid_id}/distribution (the router calls with the default
\* num_bins; the service takes any).
get_score_distribution(g, num_bins) ==
  /\ resp' = IF ~GridExists(g) THEN NotFound("score_distribution", g)
             ELSE IF SubsOfGrid(g) # {} /\ histogram_raises(SubsOfGrid(g))
               THEN HTTPException("score_distribution", g, "ValueError")
             ELSE [op |-> "score_distribution", grid |-> g,
                   num_bins |-> num_bins, status |-> 200,
                   body |-> IF SubsOfGrid(g) = {} THEN EmptyDistribution
                            ELSE score_distribution(g, num_bins)]
  /\ UNCHANGED <<grids, subs>>

\* GET /grid/{grid_id}/completion-time-distribution
get_completion_time_distribution(g, num_bins) ==
  /\ resp' = IF ~GridExists(g) THEN NotFound("time_distribution", g)
             ELSE [op |-> "time_distribution", grid |-> g,
                   num_bins |-> num_bins, status |-> 200,
                   body |-> IF SubsOfGrid(g) = {} THEN EmptyDistribution
                            ELSE completion_time_distribution(g, num_bins)]
  /\ UNCHANGED <<grids, subs>>

\* -------------------------------------------------------------- temporal
\* submitted_at.dt.hour, .dt.dayofweek (Monday = 0) and .dt.date of a
\* timestamp in hours since a Monday 00:00.
\* Mutant: the hour on a 12-hour clock.
HourOf12(t) == t % (HoursPerDay \div 2)

HourOf(t) == t % HoursPerDay
DayOfWeek(t) == (t \div HoursPerDay) % DaysPerWeek
DateOf(t) == t \div HoursPerDay

day_names ==
  <<"Monday", "Tuesday", "Wednesday", "Thursday", "Friday", "Saturday",
    "Sunday">>

\* Mutant: the hours by rising count.
peak_hoursAscending(R, tb) ==
  LET hours == {HourOf(subs[i].submitted_at) : i \in R}
      count == [h \in hours |->
                  Cardinality({i \in R : HourOf(subs[i].submitted_at) = h})]
      span == HoursPerDay + 1
      sk == SortKeys({count[h] * span + tb[h] : h \in hours},
                     0, (Cardinality(R) + 1) * span)
      top == SubSeq(sk, 1, Min2(TopHours, Len(sk)))
  IN [k \in 1..Len(top) |->
        LET h == CHOOSE x \in hours : tb[x] = top[k] % span
        IN [hour |-> h, count |-> count[h]]]

\* df["hour"].value_counts().head(3): the hours present by falling count;
\* the order of hours with equal counts follows the frame's row order, which
\* the query leaves open: tb is an order on the hours present.
peak_hours(R, tb) ==
  LET hours == {HourOf(subs[i].submitted_at) : i \in R}
      count == [h \in hours |->
                  Cardinality({i \in R : HourOf(subs[i].submitted_at) = h})]
      span == HoursPerDay + 1
      sk == SortKeys({(Cardinality(R) - count[h]) * span + tb[h] : h \in hours},
                     0, (Cardinality(R) + 1) * span)
      top == SubSeq(sk, 1, Min2(TopHours, Len(sk)))
  IN [k \in 1..Len(top) |->
        LET h == CHOOSE x \in hours : tb[x] = top[k] % span
        IN [hour |-> h, count |-> count[h]]]

\* calculate_temporal_stats for a grid that exists and has submissions.
calculate_temporal_stats(g, tb) ==
  LET R == SubsOfGrid(g)
      at == [i \in R |-> subs[i].submitted_at]
      s == SortedValues(R, at)
      dates == SortKeys({DateOf(at[i]) : i \in R}, 0, ScoreTop)
      unique_dates == Len(dates)
  IN [gridId |-> g,
      totalSubmissions |-> Cardinality(R),
      firstSubmission |-> s[1],
      lastSubmission |-> s[Len(s)],
      uniqueDays |-> unique_dates,
      averageSubmissionsPerDay |->
        IF unique_dates > 0
          THEN Hundredths(RoundHalfEven(Cardinality(R) * 100, unique_dates))
          ELSE Hundredths(0),
      submissionsByHour |->
        [h \in 0..(HoursPerDay - 1) |->
           Cardinality({i \in R : HourOf(at[i]) = h})],
      submissionsByDayOfWeek |->
        [k \in 1..DaysPerWeek |->
           [day |-> day_names[k], dayNumber |-> k - 1,
            count |-> Cardinality({i \in R : DayOfWeek(at[i]) = k - 1})]],
      peakHours |-> peak_hours(R, tb),
      dailyTimeline |->
        [k \in 1..Len(dates) |->
           [date |-> dates[k],
            count |-> Cardinality({i \in R : DateOf(at[i]) = dates[k]})]]]

\* The report of a grid without submissions.
EmptyTemporalReport(g) ==
  [gridId |-> g, totalSubmissions |-> 0,
   message |-> "No submissions yet for this grid"]

\* GET /grid/{grid_id}/temporal
get_temporal_statistics(g) ==
  /\ IF ~GridExists(g)
       THEN resp' = NotFound("temporal", g)
       ELSE IF SubsOfGrid(g) = {}
         THEN resp' = [op |-> "temporal", grid |-> g, status |-> 200,
                       body |-> EmptyTemporalReport(g)]
         ELSE \E tb \in Permutations({HourOf(subs[i].submitted_at) :
                                        i \in SubsOfGrid(g)}) :
                resp' = [op |-> "temporal", grid |-> g, status |-> 200,
                         body |-> calculate_temporal_stats(g, tb)]
  /\ UNCHANGED <<grids, subs>>

\* ---------------------------------------------------------- global rollup
\* An optional date is <<>> (None) or <<day>>.  datetime.fromisoformat of a
\* calendar date is its midnight.
fromisoformat(day) == day * HoursPerDay

date_filter_start(start_date) ==
  IF start_date = <<>> THEN <<>> ELSE <<fromisoformat(start_date[1])>>

\* Mutant: the end date taken as an exclusive bound (no + 1 day).
date_filter_endExclusive(end_date) ==
  IF end_date = <<>> THEN <<>> ELSE <<fromisoformat(end_date[1])>>

date_filter_end(end_date) ==
  IF end_date = <<>> THEN <<>>
  ELSE <<fromisoformat(end_date[1]) + HoursPerDay>>

\* submitted_at >= date_filter_start, submitted_at < date_filter_end.
DateFilter(t, start_date, end_date) ==
  /\ date_filter_start(start_date) # <<>> =>
       t >= date_filter_start(start_date)[1]
  /\ date_filter_end(end_date) # <<>> => t < date_filter_end(end_date)[1]

PublishedIds == {r.id : r \in {x \in grids : x.published}}

\* Mutant: an inner join, a grid without submission has no row.
grids_queryInner(start_date, end_date) ==
  LET joined == {<<g, i>> : g \in PublishedIds, i \in DOMAIN subs}
      matched == {row \in joined : subs[row[2]].grid_id = row[1]}
  IN {row \in matched :
        DateFilter(subs[row[2]].submitted_at, start_date, end_date)}

\* grids_query: published grids outer-joined with their submissions, then
\* the date filters "(submitted_at in range) OR (submitted_at IS NULL)".
\* A row is <<grid id, submission id>>, submission id 0 for the NULL side
\* of a grid that has no submission at all.
grids_query(start_date, end_date) ==
  LET joined == {<<g, i>> : g \in PublishedIds, i \in DOMAIN subs} 
      matched == {row \in joined : subs[row[2]].grid_id = row[1]}
      unmatched == {<<g, 0>> : g \in {h \in PublishedIds : SubsOfGrid(h) = {}}}
  IN {row \in matched :
        DateFilter(subs[row[2]].submitted_at, start_date, end_date)}
       \cup unmatched

\* One row of gridStats for grid g from the frame df; total_words is read
\* from the row `first`, the frame's first row of the grid.
GridStatsRow(g, df, first) ==
  LET grid_submissions == {row[2] : row \in {x \in df : x[1] = g /\ x[2] # 0}}
      n == Cardinality(grid_submissions)
      completed == Cardinality({i \in grid_submissions :
                      subs[i].words_found = subs[i].total_words})
      joker_used_count == Cardinality({i \in grid_submissions :
                             subs[i].joker_used})
  IN IF n > 0
       THEN [gridId |-> g,
             totalPlayers |-> n,
             completionRate |-> Tenths(RoundHalfEven(completed * 100 * 10, n)),
             jokerUsageRate |->
               Tenths(RoundHalfEven(joker_used_count * 100 * 10, n)),
             totalWords |-> subs[first].total_words,
             averageWordsFound |->
               Tenths(RoundHalfEven(
                 SumOver(grid_submissions,
                         [i \in grid_submissions |-> subs[i].words_found]) * 10,
                 n)),
             medianCompletionTime |->
               MedianInt(grid_submissions,
                 [i \in grid_submissions |-> subs[i].completion_time_seconds])]
       ELSE [gridId |-> g, totalPlayers |-> 0,
             completionRate |-> Tenths(0), jokerUsageRate |-> Tenths(0),
             totalWords |-> 0, averageWordsFound |-> Tenths(0),
             medianCompletionTime |-> 0]

\* The choices of a first row for every grid of the frame (0 for a grid
\* whose only row is the NULL one): the join has no ORDER BY.
FirstRows(df) ==
  LET ids == {row[1] : row \in df}
  IN {f \in [ids -> {0} \cup DOMAIN subs] : \A g \in ids : <<g, f[g]>> \in df}

\* The scalar queries on the session: users, grids, published grids and
\* submissions in the date range (one user per submission in the model).
global_counts(start_date, end_date) ==
  [total_users |-> Cardinality(DOMAIN subs),
   total_grids |-> Cardinality(grids),
   published_grids |-> Cardinality(PublishedIds),
   total_submissions |->
     Cardinality({i \in DOMAIN subs :
       DateFilter(subs[i].submitted_at, start_date, end_date)})]

\* Mutant: the average taken over the published grids.
global_reportPerPublished(counts, df, first) ==
  LET ids == SortKeys({row[1] : row \in df}, 0, NoGrid)
  IN [totalUsers |-> counts.total_users,
      totalGrids |-> counts.total_grids,
      publishedGrids |-> counts.published_grids,
      totalSubmissions |-> counts.total_submissions,
      averageSubmissionsPerGrid |->
        IF counts.published_grids > 0
          THEN Hundredths(RoundHalfEven(counts.total_submissions * 100,
                                        counts.published_grids))
          ELSE Hundredths(0),
      gridStats |-> [k \in 1..Len(ids) |-> GridStatsRow(ids[k], df, first[ids[k]])]]

\* The report built from the counts, the frame df of grids_query and the
\* frame's first rows `first`.
global_report(counts, df, first) ==
  LET ids == SortKeys({row[1] : row \in df}, 0, NoGrid)
  IN [totalUsers |-> counts.total_users,
      totalGrids |-> counts.total_grids,
      publishedGrids |-> counts.published_grids,
      totalSubmissions |-> counts.total_submissions,
      averageSubmissionsPerGrid |->
        IF counts.total_grids > 0
          THEN Hundredths(RoundHalfEven(counts.total_submissions * 100,
                                        counts.total_grids))
          ELSE Hundredths(0),
      gridStats |-> [k \in 1..Len(ids) |-> GridStatsRow(ids[k], df, first[ids[k]])]]

\* calculate_global_stats when nothing is written between its reads.
calculate_global_stats(start_date, end_date, first) ==
  global_report(global_counts(start_date, end_date),
                grids_query(start_date, end_date), first)

\* The rollup.  GET /global is the call without dates.
get_global_statistics(start_date, end_date) ==
  /\ \E first \in FirstRows(grids_query(start_date, end_date)) :
       resp' = [op |-> "global", start_date |-> start_date,
                end_date |-> end_date, status |-> 200,
                body |-> calculate_global_stats(start_date, end_date, first)]
  /\ UNCHANGED <<grids, subs>>

\* calculate_global_stats with writers at work.  The counts are read through
\* the session; the frame is read by pd.read_sql on db.bind, a connection of
\* its own, so a submission committed in between is in the frame and not in
\* the counts.  The call under way keeps its counts in resp (status 0).
begin_global_statistics(start_date, end_date) ==
  /\ resp' = [op |-> "global_counts", start_date |-> start_date,
              end_date |-> end_date, status |-> 0,
              counts |-> global_counts(start_date, end_date)]
  /\ UNCHANGED <<grids, subs>>

finish_global_statistics ==
  /\ resp.op = "global_counts"
  /\ LET df == grids_query(resp.start_date, resp.end_date)
     IN \E first \in FirstRows(df) :
          resp' = [op |-> "global", start_date |-> resp.start_date,
                   end_date |-> resp.end_date, status |-> 200,
                   body |-> global_report(resp.counts, df, first)]
  /\ UNCHANGED <<grids, subs>>

\* ------------------------------------------------------- specifications
GridConfigs ==
  {c \in SUBSET {GridRow(g, p) : g \in GridIds, p \in BOOLEAN} :
     \A a, b \in c : a.id = b.id => a = b}

NoResponse == [op |-> "none", status |-> 0]

\* Leaderboard: submissions of grid 1 that differ in score or in time, and
\* one of grid 2.
LeaderboardRows ==
  {SubRow(1, 20, 50, 1, 2, FALSE, 0), SubRow(1, 20, 80, 2, 2, FALSE, 0),
   SubRow(1, 10, 50, 1, 2, TRUE, 0), SubRow(2, 10, 50, 2, 2, TRUE, 0)}

InitLeaderboard ==
  /\ grids = {GridRow(g, TRUE) : g \in GridIds}
  /\ subs = <<>>
  /\ resp = NoResponse

NextLeaderboard ==
  \/ InsertSubmission(LeaderboardRows, MaxSubs)
  \/ GenerateTestData
  \/ \E g \in ProbeIds, limit \in Limits : get_grid_leaderboard(g, limit)

SpecLeaderboard == InitLeaderboard /\ [][NextLeaderboard]_vars

\* Rollup: submissions of grid 1 around the two ends of day 1, and one of
\* grid 2 inside it.  Each grid is absent, unpublished or published.
MaxGlobalSubs == 2
Day == 1
Dates == {<<>>, <<Day>>, <<Day + 1>>}
GlobalRows ==
  {SubRow(1, 10, 50, 2, 2, TRUE, at) :
     at \in {fromisoformat(Day) - 1, fromisoformat(Day),
             fromisoformat(Day + 1) - 1, fromisoformat(Day + 1)}}
    \cup {SubRow(2, 20, 80, 1, 2, FALSE, fromisoformat(Day) + 12)}

InitGlobal ==
  /\ grids \in GridConfigs
  /\ subs = <<>>
  /\ resp = NoResponse

NextGlobal ==
  \/ InsertSubmission(GlobalRows, MaxGlobalSubs)
  \/ \E s \in Dates, e \in Dates : get_global_statistics(s, e)

SpecGlobal == InitGlobal /\ [][NextGlobal]_vars

\* Grid statistics: submissions of grid 1 that differ in score (three
\* values) and in the joker flag, and one of grid 2.
GridStatsRows ==
  {SubRow(1, sc, 50, 2, 2, jk, 0) : sc \in {10, 25}, jk \in BOOLEAN}
    \cup {SubRow(1, 70, 50, 2, 2, FALSE, 0), SubRow(2, 40, 80, 1, 2, TRUE, 0)}

InitGridStats ==
  /\ grids = {GridRow(g, TRUE) : g \in GridIds}
  /\ subs = <<>>
  /\ resp = NoResponse

NextGridStats ==
  \/ InsertSubmission(GridStatsRows, MaxSubs)
  \/ \E g \in ProbeIds : get_grid_statistics(g)

SpecGridStats == InitGridStats /\ [][NextGridStats]_vars

\* Distributions: submissions of grid 1 with three scores and times, and
\* one of grid 2; 1, 2, 3 and the default number of bins.
BinCounts == {1, 2, 3, DefaultBins}
DistributionRows ==
  {SubRow(1, 10, 50, 2, 2, FALSE, 0), SubRow(1, 11, 52, 2, 2, FALSE, 0),
   SubRow(1, 13, 53, 1, 2, TRUE, 0), SubRow(2, 20, 80, 1, 2, TRUE, 0)}

InitDistribution ==
  /\ grids = {GridRow(g, TRUE) : g \in GridIds}
  /\ subs = <<>>
  /\ resp = NoResponse

NextDistribution ==
  \/ InsertSubmission(DistributionRows, MaxSubs)
  \/ \E g \in ProbeIds, b \in BinCounts : get_score_distribution(g, b)
  \/ \E g \in ProbeIds, b \in BinCounts : get_completion_time_distribution(g, b)

SpecDistribution == InitDistribution /\ [][NextDistribution]_vars

\* Non-finite scores: a submission of grid 1 whose final_score is NaN, next
\* to finite ones of grid 1 and 2.
NonFiniteRows ==
  {SubRow(1, NonFinite, 50, 2, 2, FALSE, 0), SubRow(1, 10, 52, 2, 2, FALSE, 0),
   SubRow(2, 20, 80, 1, 2, TRUE, 0)}

InitNonFinite ==
  /\ grids = {GridRow(g, TRUE) : g \in GridIds}
  /\ subs = <<>>
  /\ resp = NoResponse

NextNonFinite ==
  \/ InsertSubmission(NonFiniteRows, MaxSubs)
  \/ \E g \in ProbeIds : get_score_distribution(g, DefaultBins)
  \/ \E g \in ProbeIds : get_completion_time_distribution(g, DefaultBins)

SpecNonFinite == InitNonFinite /\ [][NextNonFinite]_vars

\* Temporal statistics: a store of up to MaxTemporalSubs submissions written
\* in the order of their timestamps.  Grid 1 is played on Monday 09h and
\* 14h, Tuesday 09h, Sunday 20h and the Monday after at 23h; grid 2 once.
MaxTemporalSubs == 5
TemporalRows ==
  {SubRow(1, 10, 50, 2, 2, FALSE, at) : at \in {9, 14, 33, 164, 191}}
    \cup {SubRow(2, 20, 80, 1, 2, TRUE, 200)}

TemporalStores ==
  {s \in UNION {[1..n -> TemporalRows] : n \in 0..MaxTemporalSubs} :
     \A k \in 1..(Len(s) - 1) : s[k].submitted_at <= s[k + 1].submitted_at}

InitTemporal ==
  /\ grids = {GridRow(g, TRUE) : g \in GridIds}
  /\ subs \in TemporalStores
  /\ resp = NoResponse

NextTemporal == \E g \in ProbeIds : get_temporal_statistics(g)

SpecTemporal == InitTemporal /\ [][NextTemporal]_vars

\* Completion: submissions of grid 1 with none, some and all of the words
\* found, of a grid of two words and of a grid without words, and one of
\* grid 2.
CompletionRows ==
  {SubRow(1, 10, 50, 0, 0, FALSE, 0), SubRow(1, 10, 50, 0, 2, FALSE, 0),
   SubRow(1, 10, 50, 1, 2, FALSE, 0), SubRow(1, 10, 50, 2, 2, TRUE, 0),
   SubRow(2, 20, 80, 1, 2, TRUE, 0)}

InitCompletion ==
  /\ grids = {GridRow(g, TRUE) : g \in GridIds}
  /\ subs = <<>>
  /\ resp = NoResponse

NextCompletion ==
  \/ InsertSubmission(CompletionRows, MaxSubs)
  \/ \E g \in ProbeIds : get_grid_statistics(g)

SpecCompletion == InitCompletion /\ [][NextCompletion]_vars

\* Grid statistics next to the rollup on one snapshot: the store is drawn at
\* the start from the completion rows and not written afterwards.
InitAgreement ==
  /\ grids = {GridRow(g, TRUE) : g \in GridIds}
  /\ subs \in UNION {[1..n -> CompletionRows] : n \in 0..MaxSubs}
  /\ resp = NoResponse

NextAgreement ==
  \/ \E g \in ProbeIds : get_grid_statistics(g)
  \/ get_global_statistics(<<>>, <<>>)

SpecAgreement == InitAgreement /\ [][NextAgreement]_vars

DefaultLimit == 100

\* Repeated calls on one snapshot: the store is drawn at the start and no
\* submission is written afterwards.  Two submissions of grid 1 tie on score
\* and time and are made at different hours, a third is slower, and grid 2
\* has one.
SnapshotLimits == {1, DefaultLimit}
SnapshotRows ==
  {SubRow(1, 20, 50, 2, 2, FALSE, 9), SubRow(1, 20, 50, 1, 2, TRUE, 14),
   SubRow(1, 20, 80, 2, 2, FALSE, 14), SubRow(2, 10, 50, 1, 2, TRUE, 33)}

InitSnapshot ==
  /\ grids = {GridRow(g, TRUE) : g \in GridIds}
  /\ subs \in UNION {[1..n -> SnapshotRows] : n \in 0..MaxSubs}
  /\ resp = NoResponse

NextSnapshot ==
  \/ \E g \in ProbeIds : get_grid_statistics(g)
  \/ \E g \in ProbeIds, limit \in SnapshotLimits : get_grid_leaderboard(g, limit)
  \/ \E g \in ProbeIds : get_score_distribution(g, DefaultBins)
  \/ \E g \in ProbeIds : get_completion_time_distribution(g, DefaultBins)
  \/ \E g \in ProbeIds : get_temporal_statistics(g)
  \/ get_global_statistics(<<>>, <<>>)

SpecSnapshot == InitSnapshot /\ [][NextSnapshot]_vars

\* The rollup under concurrent writes: submissions of grids 1 and 2 are
\* written while a call is between its two reads.
ConcurrentRows ==
  {SubRow(1, 10, 50, 2, 2, TRUE, fromisoformat(Day)),
   SubRow(1, 10, 50, 1, 2, FALSE, fromisoformat(Day + 1)),
   SubRow(2, 20, 80, 1, 2, FALSE, fromisoformat(Day) + 12)}

InitConcurrent ==
  /\ grids \in {c \in GridConfigs : {r.id : r \in c} = GridIds}
  /\ subs = <<>>
  /\ resp = NoResponse

NextConcurrent ==
  \/ InsertSubmission(ConcurrentRows, MaxSubs)
  \/ \E s \in {<<>>, <<Day>>} : begin_global_statistics(s, <<>>)
  \/ finish_global_statistics

SpecConcurrent == InitConcurrent /\ [][NextConcurrent]_vars

\* The router as deployed: every endpoint with its default parameters, on
\* every configuration of grids (absent, unpublished, published).
RouterRows ==
  {SubRow(1, 10, 50, 2, 2, TRUE, 9), SubRow(2, 20, 80, 1, 2, FALSE, 33)}

Init ==
  /\ grids \in GridConfigs
  /\ subs = <<>>
  /\ resp = NoResponse

Next ==
  \/ InsertSubmission(RouterRows, MaxSubs)
  \/ \E g \in ProbeIds : get_grid_statistics(g)
  \/ \E g \in ProbeIds : get_grid_leaderboard(g, DefaultLimit)
  \/ \E g \in ProbeIds : get_score_distribution(g, DefaultBins)
  \/ \E g \in ProbeIds : get_completion_time_distribution(g, DefaultBins)
  \/ \E g \in ProbeIds : get_temporal_statistics(g)
  \/ get_global_statistics(<<>>, <<>>)

Spec == Init /\ [][Next]_vars

\* ----------------------------------------------------------------- claims
IsLeaderboard(r) == r.op = "leaderboard" /\ r.status = 200

\* C1: in a returned leaderboard any two entries at positions r < r' have
\* finalScore[r] > finalScore[r'], or equal scores and
\* completionTime[r] <= completionTime[r'].
C1_LeaderboardOrdered ==
  IsLeaderboard(resp) =>
    \A r, q \in 1..Len(resp.body) :
      r < q =>
        \/ resp.body[r].finalScore > resp.body[q].finalScore
        \/ /\ resp.body[r].finalScore = resp.body[q].finalScore
           /\ resp.body[r].completionTime <= resp.body[q].completionTime

\* A leaderboard of three entries that uses both keys: two entries tie on
\* the score and differ in time, a third has a lower score, and the rows
\* were not inserted in that order.
C1_Witness ==
  /\ IsLeaderboard(resp)
  /\ Len(resp.body) = 3
  /\ resp.body[1].finalScore = resp.body[2].finalScore
  /\ resp.body[1].completionTime < resp.body[2].completionTime
  /\ resp.body[2].finalScore > resp.body[3].finalScore
  /\ resp.body[1].pseudo > resp.body[2].pseudo

\* C2: the rank fields of a leaderboard of K entries are 1, 2, ..., K in
\* sequence order, also among entries equal in score and time.
C2_RanksSequential ==
  IsLeaderboard(resp) =>
    \A r \in 1..Len(resp.body) : resp.body[r].rank = r

\* A leaderboard whose first two entries tie on score and on time.
C2_Witness ==
  /\ IsLeaderboard(resp)
  /\ Len(resp.body) >= 2
  /\ resp.body[1].finalScore = resp.body[2].finalScore
  /\ resp.body[1].completionTime = resp.body[2].completionTime
  /\ resp.body[2].rank = 2

\* Row a is ranked strictly before row b (score descending, time ascending).
RankedBefore(aScore, aTime, bScore, bTime) ==
  \/ aScore > bScore
  \/ aScore = bScore /\ aTime < bTime

\* The leaderboard r answers the request (g, L) on the store as it is.
TopOfOrdering(r) ==
  LET g == r.grid
      N == Cardinality(SubsOfGrid(g))
      K == Len(r.body)
      kept == {r.body[j].pseudo : j \in 1..K}
  IN /\ K = Min2(r.limit, Min2(LimitCap, N))
     /\ K <= LimitCap
     /\ kept \subseteq SubsOfGrid(g)
     /\ Cardinality(kept) = K
     /\ \A j \in 1..K :
          /\ r.body[j].finalScore = subs[r.body[j].pseudo].final_score
          /\ r.body[j].completionTime =
               subs[r.body[j].pseudo].completion_time_seconds
     /\ \A i \in SubsOfGrid(g) \ kept : \A j \in 1..K :
          ~RankedBefore(subs[i].final_score, subs[i].completion_time_seconds,
                        r.body[j].finalScore, r.body[j].completionTime)

\* C3: for a requested limit L >= 0 on a grid with N submissions the
\* leaderboard endpoint returns exactly min(L, 1000, N) entries, distinct
\* submissions of the grid, and no submission left out is ranked before a
\* returned one.  (A handler step is a step that leaves the store alone.)
C3_LimitTop ==
  [][(subs' = subs /\ IsLeaderboard(resp')) => TopOfOrdering(resp')]_vars

\* The clamp decides: 1001 entries requested of a grid with more than 1000
\* submissions, 1000 returned.
C3_Witness ==
  /\ IsLeaderboard(resp)
  /\ resp.limit = LimitCap + 1
  /\ Cardinality(SubsOfGrid(resp.grid)) > LimitCap
  /\ Len(resp.body) = LimitCap

IsGlobal(r) == r.op = "global" /\ r.status = 200

\* The timestamp t lies in the days S..E: start-of-day(S) <= t when S is
\* given, t < start-of-day(E + 1 day) when E is given.
InDays(t, S, E) ==
  /\ S # <<>> => S[1] * HoursPerDay <= t
  /\ E # <<>> => t < (E[1] + 1) * HoursPerDay

\* The submissions of grid g whose timestamp lies in the days S..E.
SubsInDays(g, S, E) ==
  {i \in SubsOfGrid(g) : InDays(subs[i].submitted_at, S, E)}

\* totalPlayers of the gridStats row of grid g; 0 when there is no row.
RowPlayers(r, g) ==
  LET rows == {k \in 1..Len(r.body.gridStats) : r.body.gridStats[k].gridId = g}
  IN SumOver(rows, [k \in rows |-> r.body.gridStats[k].totalPlayers])

CountedIffInDays(r) ==
  /\ r.body.totalSubmissions =
       Cardinality({i \in DOMAIN subs :
         InDays(subs[i].submitted_at, r.start_date, r.end_date)})
  /\ \A g \in PublishedIds :
       RowPlayers(r, g) = Cardinality(SubsInDays(g, r.start_date, r.end_date))

\* C4: in calculate_global_stats with start date S and/or end date E a
\* submission is counted, in totalSubmissions and in the row of its grid,
\* if and only if start-of-day(S) <= t and t < start-of-day(E + 1 day).
C4_DateFilter ==
  [][(subs' = subs /\ IsGlobal(resp')) => CountedIffInDays(resp')]_vars

\* S = E = D on a published grid with a submission in the last hour of day
\* D and one at 00:00 of day D + 1: the first is counted, the second not.
C4_Witness ==
  /\ IsGlobal(resp)
  /\ resp.start_date = <<Day>> /\ resp.end_date = <<Day>>
  /\ 1 \in PublishedIds
  /\ \E i, j \in SubsOfGrid(1) :
       /\ subs[i].submitted_at = (Day + 1) * HoursPerDay - 1
       /\ subs[j].submitted_at = (Day + 1) * HoursPerDay
  /\ resp.body.totalSubmissions = 1
  /\ Len(resp.body.gridStats) >= 1
  /\ resp.body.gridStats[1].gridId = 1
  /\ resp.body.gridStats[1].totalPlayers = 1

\* The gridStats row of a grid without a qualifying submission.
ZeroRow(row) ==
  /\ row.totalPlayers = 0
  /\ row.completionRate.n = 0
  /\ row.jokerUsageRate.n = 0
  /\ row.totalWords = 0
  /\ row.averageWordsFound.n = 0
  /\ row.medianCompletionTime = 0

EmptyGridsKept(r) ==
  \A g \in PublishedIds :
    SubsInDays(g, r.start_date, r.end_date) = {} =>
      \E k \in 1..Len(r.body.gridStats) :
        r.body.gridStats[k].gridId = g /\ ZeroRow(r.body.gridStats[k])

\* C5: for every date range, every published grid with zero submissions
\* inside the range (none at all, or only submissions outside the range)
\* has a row in gridStats with all per-grid metrics 0.
C5_EmptyGridKept ==
  [][(subs' = subs /\ IsGlobal(resp')) => EmptyGridsKept(resp')]_vars

IsGridStats(r) == r.op = "grid_stats" /\ r.status = 200

\* The optional number x is the mean of the final scores of the rows R:
\* None when R is empty.
IsMeanScore(x, R) ==
  IF R = {} THEN x = <<>>
  ELSE /\ x # <<>>
       /\ x[1].n * Cardinality(R)
            = SumOver(R, [i \in R |-> subs[i].final_score]) * x[1].d

JokerAverages(r) ==
  LET R == SubsOfGrid(r.grid)
  IN /\ IsMeanScore(r.body.jokerUsage.averageScoreWithJoker,
                    {i \in R : subs[i].joker_used})
     /\ IsMeanScore(r.body.jokerUsage.averageScoreWithoutJoker,
                    {i \in R : ~subs[i].joker_used})

\* C6: in the grid statistics report averageScoreWithJoker is the mean final
\* score of the submissions with the joker flag set, averageScoreWithoutJoker
\* that of the submissions with the flag not set; each is null exactly when
\* its own subset is empty.
C6_JokerAverages ==
  [][(subs' = subs /\ IsGridStats(resp') /\ SubsOfGrid(resp'.grid) # {})
       => JokerAverages(resp')]_vars

IsDistribution(r) ==
  r.op \in {"score_distribution", "time_distribution"} /\ r.status = 200

\* Comparison of exact numbers.
FracEq(a, b) == a.n * b.d = b.n * a.d
FracLe(a, b) == a.n * b.d <= b.n * a.d
FracLt(a, b) == a.n * b.d < b.n * a.d

\* The column a distribution report is about.
ColumnOf(r, i) ==
  IF r.op = "score_distribution" THEN subs[i].final_score
  ELSE subs[i].completion_time_seconds

\* The value v lies in bin k of the score distribution r: in [start, end),
\* closed at end for the final bin.
InScoreBin(r, k, v) ==
  /\ FracLe(r.body.bins[k].start, Frac(v, 1))
  /\ IF k = Len(r.body.bins) THEN FracLe(Frac(v, 1), r.body.bins[k].end)
     ELSE FracLt(Frac(v, 1), r.body.bins[k].end)

\* The bin counts sum to the number of values and, in the score
\* distribution, every value lies in exactly one bin, which counts it.
CountsPartition(r) ==
  LET R == SubsOfGrid(r.grid)
      K == 1..Len(r.body.bins)
  IN /\ SumOver(K, [k \in K |-> r.body.bins[k].count]) = Cardinality(R)
     /\ r.op = "score_distribution" =>
          /\ \A i \in R :
               Cardinality({k \in K : InScoreBin(r, k, subs[i].final_score)}) = 1
          /\ \A k \in K :
               r.body.bins[k].count =
                 Cardinality({i \in R : InScoreBin(r, k, subs[i].final_score)})

\* The values equal to the maximum are counted in the last bin.
MaxInLastBin(r) ==
  LET R == SubsOfGrid(r.grid)
  IN r.body.bins[Len(r.body.bins)].count
       >= Cardinality({i \in R : ColumnOf(r, i) = r.body.max})

NonEmptyDistribution(r) == IsDistribution(r) /\ SubsOfGrid(r.grid) # {}

\* C7 as stated: for every non-empty column and bin count >= 1 the bin
\* counts sum to the number of values, every value is counted in exactly
\* one bin, and a value equal to the maximum is counted in the last bin.
C7_Original ==
  [][(subs' = subs /\ NonEmptyDistribution(resp'))
       => (CountsPartition(resp') /\ MaxInLastBin(resp'))]_vars

\* C7 (amended): as stated, the maximum being counted in the last bin
\* unless all values are equal and there are three bins or more.
C7_HistogramCounts ==
  [][(subs' = subs /\ NonEmptyDistribution(resp'))
       => /\ CountsPartition(resp')
          /\ (resp'.body.max > resp'.body.min \/ resp'.num_bins <= 2)
               => MaxInLastBin(resp')]_vars

\* Three values, two of them the maximum, in three bins: both maxima are in
\* the last bin.
C7_Witness ==
  /\ NonEmptyDistribution(resp)
  /\ resp.num_bins = 3
  /\ Cardinality(SubsOfGrid(resp.grid)) = 3
  /\ resp.body.max > resp.body.min
  /\ resp.body.bins[3].count = 2
  /\ resp.body.bins[1].count = 1

IsScoreDistribution(r) ==
  r.op = "score_distribution" /\ r.status = 200 /\ r.body.bins # <<>>

\* num_bins contiguous bins of width w (an exact number) from lo to hi.
EqualWidthBins(r, lo, hi, w) ==
  LET b == r.body.bins
  IN /\ Len(b) = r.num_bins
     /\ \A k \in 1..(Len(b) - 1) : b[k].end = b[k + 1].start
     /\ FracEq(b[1].start, lo)
     /\ FracEq(b[Len(b)].end, hi)
     /\ \A k \in 1..Len(b) :
          FracEq(Frac(b[k].end.n * b[k].start.d - b[k].start.n * b[k].end.d,
                      b[k].end.d * b[k].start.d), w)

\* C8 as stated: for every non-empty score column, bin_count contiguous
\* bins from the observed minimum to the observed maximum, each of width
\* (max - min) / bin_count, also when all values are equal.
C8_Original ==
  IsScoreDistribution(resp) =>
    EqualWidthBins(resp, Frac(resp.body.min, 1), Frac(resp.body.max, 1),
                   Frac(resp.body.max - resp.body.min, resp.num_bins))

\* C8 (amended): as stated when max > min; when all values are equal to v
\* the bin_count contiguous bins run from v - 0.5 to v + 0.5 and have width
\* 1 / bin_count.
C8_EqualWidthBins ==
  IsScoreDistribution(resp) =>
    IF resp.body.max > resp.body.min
      THEN EqualWidthBins(resp, Frac(resp.body.min, 1), Frac(resp.body.max, 1),
                          Frac(resp.body.max - resp.body.min, resp.num_bins))
      ELSE EqualWidthBins(resp, Frac(2 * resp.body.min - 1, 2),
                          Frac(2 * resp.body.max + 1, 2),
                          Frac(1, resp.num_bins))

\* A score distribution of two equal scores in the default number of bins.
C8_Witness ==
  /\ IsScoreDistribution(resp)
  /\ resp.num_bins = DefaultBins
  /\ Cardinality(SubsOfGrid(resp.grid)) = 2
  /\ resp.body.max = resp.body.min
  /\ FracEq(resp.body.bins[1].start, Frac(2 * resp.body.min - 1, 2))

GridOps ==
  {"grid_stats", "leaderboard", "score_distribution", "time_distribution",
   "temporal"}

\* The identifiers of the grids in the store.
StoredGridIds == {r.id : r \in grids}

\* C9: each of the five grid-scoped operations, called with a grid
\* identifier that is not in the store, fails with NotFound (HTTP 404) and
\* returns no report, whatever submissions exist.
C9_UnknownGridNotFound ==
  (resp.op \in GridOps /\ resp.grid \notin StoredGridIds) =>
    (resp.status = 404 /\ "body" \notin DOMAIN resp)

\* The temporal endpoint answered 404 for an absent grid while another grid
\* has submissions.
C9_Witness ==
  /\ resp.op = "temporal"
  /\ resp.grid \notin StoredGridIds
  /\ resp.status = 404
  /\ DOMAIN subs # {}

\* The answer for a grid that exists and has no submission.
MinimalReport(r) ==
  /\ r.status = 200
  /\ r.op \in {"grid_stats", "temporal"} =>
       /\ r.body.totalSubmissions = 0
       /\ "message" \in DOMAIN r.body
       /\ DOMAIN r.body \cap
            {"scores", "timing", "jokerUsage", "wordsStats", "completionRate",
             "submissionsByHour", "submissionsByDayOfWeek", "peakHours",
             "dailyTimeline", "firstSubmission", "lastSubmission"} = {}
  /\ r.op = "leaderboard" => r.body = <<>>
  /\ r.op \in {"score_distribution", "time_distribution"} =>
       /\ r.body.bins = <<>>
       /\ DOMAIN r.body \cap {"min", "max", "mean", "median"} = {}

\* C10: for an existing grid with zero submissions no operation fails: grid
\* stats and temporal stats return a minimal report (totalSubmissions = 0, a
\* message, no scores/timing/temporal sub-objects), the leaderboard an empty
\* sequence, both distributions an empty bin sequence without min/max/mean.
C10_EmptyGridReports ==
  [][(subs' = subs /\ resp'.op \in GridOps /\ resp'.grid \in StoredGridIds
        /\ SubsOfGrid(resp'.grid) = {}) => MinimalReport(resp')]_vars

\* The score distribution of an existing grid without submissions, while
\* another grid has some.
C10_Witness ==
  /\ resp.op = "score_distribution"
  /\ resp.grid \in StoredGridIds
  /\ SubsOfGrid(resp.grid) = {}
  /\ DOMAIN subs # {}
  /\ resp.status = 200
  /\ resp.body.bins = <<>>

\* C11: a grid operation on a grid that is in the store never answers
\* NotFound (404); a failure inside its fetch or aggregation, a ValueError
\* included, is an internal error (500).
C11_ExistingGridNeverNotFound ==
  (resp.op \in GridOps /\ resp.grid \in StoredGridIds) => resp.status # 404

\* The percentiles of a score report in the order of their quantile.
PercentileSeq(sc) ==
  <<sc.percentiles.p1, sc.percentiles.p5, sc.percentiles.p10,
    sc.percentiles.p25, sc.percentiles.p50, sc.percentiles.p75,
    sc.percentiles.p90, sc.percentiles.p95, sc.percentiles.p99>>

PercentilesOrdered(sc) ==
  LET ps == PercentileSeq(sc)
  IN /\ \A k \in 1..(Len(ps) - 1) : FracLe(ps[k], ps[k + 1])
     /\ FracLe(Frac(sc.min, 1), ps[1])
     /\ FracLe(ps[Len(ps)], Frac(sc.max, 1))
     /\ FracEq(sc.percentiles.p50, sc.median)

\* C12: in the grid statistics report of a grid with submissions the score
\* percentiles are non-decreasing from p1 to p99, min <= p1, p99 <= max, and
\* p50 equals the median.
C12_PercentilesOrdered ==
  (IsGridStats(resp) /\ "scores" \in DOMAIN resp.body)
    => PercentilesOrdered(resp.body.scores)

\* A report over three distinct scores: min < p1 < p50 < p99 < max.
C12_Witness ==
  /\ IsGridStats(resp)
  /\ "scores" \in DOMAIN resp.body
  /\ resp.body.totalSubmissions = 3
  /\ FracLt(Frac(resp.body.scores.min, 1), resp.body.scores.percentiles.p1)
  /\ FracLt(resp.body.scores.percentiles.p1, resp.body.scores.percentiles.p50)
  /\ FracLt(resp.body.scores.percentiles.p50, resp.body.scores.percentiles.p99)
  /\ FracLt(resp.body.scores.percentiles.p99, Frac(resp.body.scores.max, 1))

IsTemporal(r) == r.op = "temporal" /\ r.status = 200

\* The hour-of-day and day-of-week tables of the temporal report r of a grid
\* with submissions.
TemporalTables(r) ==
  LET R == SubsOfGrid(r.grid)
      byHour == r.body.submissionsByHour
      byDay == r.body.submissionsByDayOfWeek
  IN /\ r.body.totalSubmissions = Cardinality(R)
     /\ DOMAIN byHour = 0..23
     /\ Len(byDay) = 7
     /\ \A k \in 1..7 : byDay[k].dayNumber = k - 1
     /\ byDay[1].day = "Monday" /\ byDay[7].day = "Sunday"
     /\ \A h \in 0..23 :
          (\A i \in R : subs[i].submitted_at % 24 # h) => byHour[h] = 0
     /\ \A k \in 1..7 :
          (\A i \in R : (subs[i].submitted_at \div 24) % 7 # k - 1)
            => byDay[k].count = 0
     /\ SumOver(0..23, byHour) = r.body.totalSubmissions
     /\ SumOver(1..7, [k \in 1..7 |-> byDay[k].count])
          = r.body.totalSubmissions

\* C13: in the temporal report of a grid with submissions, submissionsByHour
\* has exactly the keys 0..23 and submissionsByDayOfWeek the 7 entries
\* dayNumber 0 (Monday) .. 6 (Sunday); an hour or day without submission has
\* count 0 and each table sums to totalSubmissions.
C13_TemporalTables ==
  [][(subs' = subs /\ IsTemporal(resp') /\ SubsOfGrid(resp'.grid) # {})
       => TemporalTables(resp')]_vars

\* Four submissions of grid 1: two in the 09h slot on different days, one
\* on Sunday at 20h in the afternoon half of the day, none on Wednesday.
C13_Witness ==
  /\ IsTemporal(resp)
  /\ resp.body.totalSubmissions = 4
  /\ resp.body.submissionsByHour[9] = 2
  /\ resp.body.submissionsByHour[20] = 1
  /\ resp.body.submissionsByHour[8] = 0
  /\ resp.body.submissionsByDayOfWeek[7].count = 1
  /\ resp.body.submissionsByDayOfWeek[3].count = 0

\* completionRate of the report r is 100 * (completed / all), to 2 decimals.
CompletionRateOf(r) ==
  LET R == SubsOfGrid(r.grid)
      completed == {i \in R : subs[i].words_found = subs[i].total_words}
  IN /\ r.body.completionRate
          = Hundredths(RoundHalfEven(Cardinality(completed) * 10000,
                                     Cardinality(R)))
     /\ 0 <= r.body.completionRate.n
     /\ r.body.completionRate.n <= 10000

\* C14: in the grid statistics report of a grid with submissions, all with
\* 0 <= words_found <= total_words (total_words = 0 included),
\* completionRate is 100 times the fraction of submissions with
\* words_found = total_words, rounded to 2 decimals, within [0, 100].
C14_CompletionRate ==
  [][(subs' = subs /\ IsGridStats(resp') /\ SubsOfGrid(resp'.grid) # {})
       => CompletionRateOf(resp')]_vars

\* The operation and the parameters a response answers.
Request(r) == [k \in DOMAIN r \ {"status", "body"} |-> r[k]]

\* C15: a report operation called twice with the same parameters on the
\* same unchanged store returns the same output both times, the order and
\* the choice of tied leaderboard entries and of tied peak hours included.
\* (In SpecSnapshot the store never changes, so resp is always an answer on
\* the current store.)
C15_Idempotent ==
  [][(subs' = subs /\ grids' = grids /\ Request(resp') = Request(resp))
       => resp' = resp]_vars

\* C16: a rollup is the report of one store state also when submissions are
\* written while it is computed: totalSubmissions is at least the sum of
\* totalPlayers over gridStats, and publishedGrids at least the number of
\* gridStats rows.
C16_OneSnapshot ==
  IsGlobal(resp) =>
    /\ resp.body.totalSubmissions
         >= SumOver(1..Len(resp.body.gridStats),
                    [k \in 1..Len(resp.body.gridStats) |->
                       resp.body.gridStats[k].totalPlayers])
    /\ resp.body.publishedGrids >= Len(resp.body.gridStats)

\* averageSubmissionsPerGrid of the rollup r is the number of submissions in
\* the date range divided by `divisor`, to 2 decimals; 0 for divisor 0.
AverageOver(r, divisor) ==
  LET total == Cardinality({i \in DOMAIN subs :
                 InDays(subs[i].submitted_at, r.start_date, r.end_date)})
  IN r.body.averageSubmissionsPerGrid
       = IF divisor = 0 THEN Hundredths(0)
         ELSE Hundredths(RoundHalfEven(total * 100, divisor))

\* C17 as stated: the divisor is the number of published grids.
C17_Original ==
  [][(subs' = subs /\ IsGlobal(resp'))
       => AverageOver(resp', Cardinality(PublishedIds))]_vars

\* C17: averageSubmissionsPerGrid of the rollup is the (date-filtered) total
\* submission count divided by the number of all grids, published or not,
\* rounded to 2 decimals, and 0 when there is no grid.
C17_AveragePerGrid ==
  [][(subs' = subs /\ IsGlobal(resp'))
       => AverageOver(resp', Cardinality(grids))]_vars

\* A rollup over one published and one unpublished grid, with a date range
\* that keeps one of two submissions: the average is 1 / 2.
C17_Witness ==
  /\ IsGlobal(resp)
  /\ Cardinality(grids) = 2 /\ Cardinality(PublishedIds) = 1
  /\ resp.start_date # <<>>
  /\ Cardinality(DOMAIN subs) = 2
  /\ resp.body.totalSubmissions = 1
  /\ resp.body.averageSubmissionsPerGrid = Hundredths(50)

\* peakHours of the temporal report r against its own hour table.
PeakHoursTop(r) ==
  LET peak == r.body.peakHours
      byHour == r.body.submissionsByHour
      present == {h \in 0..23 : byHour[h] > 0}
      kept == {peak[k].hour : k \in 1..Len(peak)}
  IN /\ Len(peak) = Min2(3, Cardinality(present))
     /\ \A j, k \in 1..Len(peak) : j # k => peak[j].hour # peak[k].hour
     /\ \A k \in 1..Len(peak) :
          peak[k].hour \in 0..23 /\ peak[k].count = byHour[peak[k].hour]
     /\ \A k \in 1..(Len(peak) - 1) : peak[k].count >= peak[k + 1].count
     /\ \A h \in (0..23) \ kept :
          \A k \in 1..Len(peak) : byHour[h] <= peak[k].count

\* C18: in the temporal report of a grid with submissions peakHours has
\* min(3, number of hours with a submission) entries of pairwise distinct
\* hours, each with that hour's count of submissionsByHour, in
\* non-increasing count order, and no hour left out has a greater count
\* than an entry kept.
C18_PeakHours ==
  (IsTemporal(resp) /\ "peakHours" \in DOMAIN resp.body) => PeakHoursTop(resp)

\* Submissions at four different hours, one hour twice: three entries are
\* kept, the first with count 2, and one hour of count 1 is left out.
C18_Witness ==
  /\ IsTemporal(resp)
  /\ "peakHours" \in DOMAIN resp.body
  /\ Cardinality({h \in 0..23 : resp.body.submissionsByHour[h] > 0}) = 4
  /\ Len(resp.body.peakHours) = 3
  /\ resp.body.peakHours[1].count = 2
  /\ resp.body.peakHours[3].count = 1

\* The count of every bin of the time distribution r is the number of times
\* of the grid inside the bin's reported interval.
TruncatedBinCounts(r) ==
  LET R == SubsOfGrid(r.grid)
      bins == r.body.bins
  IN \A k \in 1..Len(bins) :
       bins[k].count =
         Cardinality({i \in R :
           /\ bins[k].start <= subs[i].completion_time_seconds
           /\ \/ subs[i].completion_time_seconds < bins[k].end
              \/ /\ k = Len(bins)
                 /\ subs[i].completion_time_seconds = bins[k].end})

\* C19: in the completion-time distribution of a grid with submissions the
\* count of each bin is the number of input times in the reported integer
\* interval [start, end) of that bin (closed at end for the final bin).
C19_TruncatedBinCounts ==
  [][(subs' = subs /\ resp'.op = "time_distribution" /\ resp'.status = 200
        /\ SubsOfGrid(resp'.grid) # {}) => TruncatedBinCounts(resp')]_vars

\* gridStats of the rollup r: the published grids, each once, in ascending
\* order, each with the number of its submissions.
RowPerPublishedGrid(r) ==
  LET rows == r.body.gridStats
  IN /\ {rows[k].gridId : k \in 1..Len(rows)}
          = {g.id : g \in {x \in grids : x.published}}
     /\ \A k \in 1..(Len(rows) - 1) : rows[k].gridId < rows[k + 1].gridId
     /\ \A k \in 1..Len(rows) :
          rows[k].totalPlayers
            = Cardinality({i \in DOMAIN subs : subs[i].grid_id = rows[k].gridId})

\* C20: without a date filter gridStats has exactly one row per published
\* grid and none for an unpublished grid, in strictly ascending gridId
\* order, and each row's totalPlayers is the number of submissions of its
\* grid.
C20_RowPerPublishedGrid ==
  [][(subs' = subs /\ IsGlobal(resp') /\ resp'.start_date = <<>>
        /\ resp'.end_date = <<>>) => RowPerPublishedGrid(resp')]_vars

\* Two published grids, the first without submission and the second with
\* two: two rows in ascending order.
C20_Witness ==
  /\ IsGlobal(resp)
  /\ resp.start_date = <<>> /\ resp.end_date = <<>>
  /\ Len(resp.body.gridStats) = 2
  /\ resp.body.gridStats[1].gridId = 1
  /\ resp.body.gridStats[1].totalPlayers = 0
  /\ resp.body.gridStats[2].totalPlayers = 2

\* The grid statistics report gs and the rollup row agree: the same number
\* of players, one number c of completed submissions behind both completion
\* rates, and the rollup's joker rate is the report's usage rate to 1 decimal.
ReportsAgree(gs, row) ==
  LET n == gs.totalPlayers
  IN /\ row.totalPlayers = n
     /\ \E c \in 0..n :
          /\ gs.completionRate = Hundredths(RoundHalfEven(c * 10000, n))
          /\ row.completionRate = Tenths(RoundHalfEven(c * 1000, n))
     /\ row.jokerUsageRate
          = Tenths(RoundHalfEven(gs.jokerUsage.usageRate.n * 10,
                                 gs.jokerUsage.usageRate.d))

\* The grid statistics answer a and the rollup answer b, without dates, on
\* a published grid with submissions.
AgreeOn(a, b) ==
  (/\ IsGridStats(a) /\ "scores" \in DOMAIN a.body
   /\ a.grid \in {g.id : g \in {x \in grids : x.published}}
   /\ IsGlobal(b) /\ b.start_date = <<>> /\ b.end_date = <<>>)
    => \E k \in 1..Len(b.body.gridStats) :
         /\ b.body.gridStats[k].gridId = a.grid
         /\ ReportsAgree(a.body, b.body.gridStats[k])

\* C21: for a published grid with submissions (0 <= words_found <=
\* total_words, total_words = 0 included) the rollup without dates and the
\* grid statistics, taken one after the other on the same store, agree on
\* totalPlayers, on the submissions counted as completed and on the joker
\* usage up to rounding.  (In SpecAgreement the store never changes.)
C21_RollupAgrees ==
  [][AgreeOn(resp, resp') /\ AgreeOn(resp', resp)]_vars

====
